---- MODULE Spec2Model ----
(***************************************************************************)
(* Faultline.ai: job orchestration and content-addressed result caching.  *)
(*                                                                         *)
(* The model covers the key-value store (job:{id} and cache:{hash} keys    *)
(* with TTLs), the analysis router (POST /artifacts/analyze, GET /jobs/..) *)
(* and the background task run_analysis_task with the retrying agent.      *)
(*                                                                         *)
(* Time is counted in ticks.  A store round trip, the size guard, the      *)
(* normalizer and the heuristics are short on the scale of a TTL, so the   *)
(* time advances only   between requests and while an agent call is         *)
(* outstanding (no timeout is configured on agent calls).                  *)
(***************************************************************************)
EXTENDS Integers, Sequences, FiniteSets, TLC

\* ------------------------------------------------------------------ bounds
\* Number of submissions in one behaviour (job ids are 1..MaxJobs).
MaxJobs == 2
\* Job TTL in ticks (settings.JOB_EXPIRATION, 3600 s, scaled).
JOB_EXPIRATION == 2
\* Content-size ceiling in bytes (settings.MAX_CONTENT_SIZE, 500000, scaled).
MAX_CONTENT_SIZE == 1
\* Number of submissions in one replay of a content sequence.
ReplayLen == 2
\* Number of getJobStatus requests of one mounted hook.
MaxPolls == 3
\* Longest content held by the editor, in characters.
UiLen == 1
\* Number of URL fetches started from the home page.
MaxFetches == 1
\* Number of submissions made from the analyze dialog.
MaxSubmits == 2

\* ------------------------------------------------------- program constants
\* Agent(retries=3, output_retries=3)
RETRIES == 3
OUTPUT_RETRIES == 3

\* "total: up to 9 attempts"
TOTAL_ATTEMPTS == 9

\* Cache TTL in ticks (settings.CACHE_EXPIRATION): the cache outlives jobs.
CACHE_EXPIRATION == JOB_EXPIRATION + 1
\* Ages are counted up to the job TTL.
MaxAge == JOB_EXPIRATION
\* Longest submitted content: one byte over the ceiling.
MaxLen == MAX_CONTENT_SIZE + 1

\* --------------------------------------------------------------- data
None == <<>>
Some(x) == <<x>>

Bytes == {7}
RECURSIVE SeqsUpTo(_)
SeqsUpTo(n) == IF n = 0 THEN {<<>>}
               ELSE SeqsUpTo(n - 1) \cup [1..n -> Bytes]
\* Submitted contents: the client refuses to send an empty content.
Contents == SeqsUpTo(MaxLen) \ {<<>>}

Metadatas == {"none"}

JobIds == 1..MaxJobs

\* JobStatus
QUEUED == "queued"
RUNNING == "running"
COMPLETED == "completed"
FAILED == "failed"

\* content_hash = sha256(content).hexdigest(): a digest of the content bytes
\* alone.  The digest is idealised as the positional value of the bytes in
\* base 257 with a leading 1, which is collision free on Contents.
RECURSIVE Sha256(_)
Sha256(c) == IF Len(c) = 0 THEN 1
             ELSE Sha256(SubSeq(c, 1, Len(c) - 1)) * 257 + c[Len(c)] + 1

Hashes == {Sha256(c) : c \in Contents}

\* What one agent call can return: a payload that passes or fails the
\* AnalysisData schema (score in 0..100, exactly three charts).
RawOutputs == [score : {0, 100, 101}, charts : {2, 3}]
SchemaValid(o) == o.score >= 0 /\ o.score <= 100 /\ o.charts = 3
\* The markdown report is rendered from the analysis data.
Markdown(o) == <<"report", o.score>>

\* progress_hint texts
HintQueued == "Job queued"
HintNormalizing == "Normalizing artifact..."
HintHeuristics == "Running heuristics..."
HintSynthesizing == "Synthesizing with AI..."
HintComplete == "Analysis complete"
HintCached == "Result retrieved from cache"
ErrSize == "Error: content exceeds MAX_CONTENT_SIZE"
ErrSchema == "Error: output validation failed"
ErrProvider == "Error: provider failure"
ErrInternal == "Error: internal"
ErrJobGone == "Error: job not found"
NoErr == "none"
ErrorHints == {ErrSize, ErrSchema, ErrProvider, ErrInternal, ErrJobGone}

VARIABLES
    jobs,       \* store keys job:{id}: function from the live ids to records
    jobTtl,     \* remaining TTL of each live job key
    cache,      \* store keys cache:{hash}: function from live hashes to entries
    cacheTtl,   \* remaining TTL of each live cache key
    nextId,     \* next job id to hand out
    task,       \* the background task of each job
    hist,       \* per job: the statuses written to the store, in order
    calls,      \* per job: collaborator invocations made by its run
    stored,     \* per job: the cache entry its run wrote, if any
    age,        \* per job: ticks since the last successful write of its key
    resp,       \* per job: the response POST /artifacts/analyze gave
    replay,     \* two replays of one content sequence against the cache keys
    srv,        \* what the server holds for the job a mounted hook polls
    hook,       \* useJobStatus: its React state and its effect's closure
    polls,      \* the getJobStatus requests of the hook, in issue order
    fetches,    \* the getJobResult requests of the hook, in issue order
    editor,     \* useEditorStore: content, contentType, metadata
    home,       \* the home page: its URL fetches and what they returned
    dialog      \* the analyze dialog: its state, its calls, its navigations

\* The server.
vars == <<jobs, jobTtl, cache, cacheTtl, nextId, task, hist, calls,
          stored, age, resp>>
\* The key replay and the browser.
uivars == <<editor, home, dialog>>
cvars == <<replay, srv, hook, polls, fetches, uivars>>
allvars == <<vars, cvars>>

\* Nothing is replayed and no hook is mounted.
NoReplay == <<>>
NoHook == <<>>
ReplayIdle == replay = NoReplay
HookIdle ==
    /\ srv = None
    /\ hook = NoHook
    /\ polls = <<>>
    /\ fetches = <<>>
\* The editor store as created, no URL fetch started, the dialog closed.
UiIdle ==
    /\ editor = [content |-> <<>>, contentType |-> "markdown",
                 metadata |-> None]
    /\ home = [fetches |-> <<>>, fetched |-> {}]
    /\ dialog = [open |-> FALSE, isAnalyzing |-> FALSE, calls |-> <<>>,
                 pushed |-> <<>>]
ClientIdle == ReplayIdle /\ HookIdle /\ UiIdle

NoTask == [pc |-> "none", content |-> <<>>, sr |-> 0, pr |-> 0,
           out |-> None, err |-> NoErr, term |-> 0]

ServerInit ==
    /\ jobs = <<>>
    /\ jobTtl = <<>>
    /\ cache = <<>>
    /\ cacheTtl = <<>>
    /\ nextId = 1
    /\ task = [j \in JobIds |-> NoTask]
    /\ hist = [j \in JobIds |-> <<>>]
    /\ calls = [j \in JobIds |-> [norm |-> 0, heur |-> 0, synth |-> 0]]
    /\ stored = [j \in JobIds |-> None]
    /\ age = [j \in JobIds |-> 0]
    /\ resp = [j \in JobIds |-> None]

Init == ServerInit /\ ClientIdle

\* ------------------------------------------------------------ the store
\* Variant: a set on an existing key keeps the value it has (SET NX).
SetKeyIfAbsent(store, k, v) == store @@ (k :> v)

\* redis.set(key, value, ex=ttl) on a keyspace held as a function.
SetKey(store, k, v) == (k :> v) @@ store
\* A key whose TTL reached 0 is deleted by the store.
DropKeys(store, ks) == [k \in (DOMAIN store) \ ks |-> store[k]]

\* Variant: the job is created already RUNNING.
NewJobRunning(j, h, m) ==
    [job_id |-> j, status |-> RUNNING, content_hash |-> h, metadata |-> m,
     progress_hint |-> HintQueued, result |-> None, markdown |-> None]

\* Create Job: the record written under job:{job_id} on a cache miss.
NewJob(j, h, m) ==
    [job_id |-> j, status |-> QUEUED, content_hash |-> h, metadata |-> m,
     progress_hint |-> HintQueued, result |-> None, markdown |-> None]

\* Create Job as a store operation: redis.set(job_key, job_data, ex=...) with
\* no check of the key.
CreateJob(store, j, h, m) == SetKey(store, j, NewJob(j, h, m))

\* Variant: the cached markdown is not copied into the job.
CachedJobNoMarkdown(j, h, m, entry) ==
    [job_id |-> j, status |-> COMPLETED, content_hash |-> h, metadata |-> m,
     progress_hint |-> HintCached, result |-> entry.result,
     markdown |-> None]

\* Cache hit: the job is created with COMPLETED status and the cached payload.
CachedJob(j, h, m, entry) ==
    [job_id |-> j, status |-> COMPLETED, content_hash |-> h, metadata |-> m,
     progress_hint |-> HintCached, result |-> entry.result,
     markdown |-> entry.markdown]

\* Variant: the update stores hint and payload but not the status.
UpdatedJobKeepStatus(data, status, hint, result, markdown) ==
    [data EXCEPT !.progress_hint = hint,
                 !.result = IF result # None THEN result ELSE @,
                 !.markdown = IF markdown # None THEN markdown ELSE @]

\* Update Job: the record after data["status"] = ..., data["progress_hint"]
\* = ..., and result / markdown set only when given.
UpdatedJob(data, status, hint, result, markdown) ==
    [data EXCEPT !.status = status,
                 !.progress_hint = hint,
                 !.result = IF result # None THEN result ELSE @,
                 !.markdown = IF markdown # None THEN markdown ELSE @]

\* Variant: job keys are set with a longer TTL than JOB_EXPIRATION.
JobSetTtlLong == JOB_EXPIRATION + 1

\* The TTL given to a job key on every set.
JobSetTtl == JOB_EXPIRATION
\* Variant: cache keys are set with the TTL of job keys.
CacheSetTtlAsJob == JOB_EXPIRATION

\* The TTL given to a cache key on every set.
CacheSetTtl == CACHE_EXPIRATION

\* Appending a status to the observed history of a job (repeats of the same
\* status by progress-hint updates are one observation).
Observe(h, status) ==
    IF Len(h) > 0 /\ h[Len(h)] = status THEN h ELSE Append(h, status)

\* Variant: the update keeps the remaining TTL of the key.
WriteJobKeepTtl(j, status, hint, result, markdown) ==
    /\ jobs' = SetKey(jobs, j, UpdatedJob(jobs[j], status, hint, result, markdown))
    /\ jobTtl' = jobTtl
    /\ hist' = [hist EXCEPT ![j] = Observe(@, status)]
    /\ age' = [age EXCEPT ![j] = 0]

\* The store write of update_job for a live key.
WriteJob(j, status, hint, result, markdown) ==
    /\ jobs' = SetKey(jobs, j, UpdatedJob(jobs[j], status, hint, result, markdown))
    /\ jobTtl' = SetKey(jobTtl, j, JobSetTtl)
    /\ hist' = [hist EXCEPT ![j] = Observe(@, status)]
    /\ age' = [age EXCEPT ![j] = 0]

\* update_job on a key that is gone: redis.get returns nothing and the
\* update raises; nothing is written.
NoWrite == UNCHANGED <<jobs, jobTtl, hist, age>>

JobLive(j) == j \in DOMAIN jobs

\* ---------------------------------------------------- POST /artifacts/analyze
\* The handler hashes the content, reads cache:{hash}, and either answers
\* from the cache with a job created COMPLETED, or creates a QUEUED job and
\* queues run_analysis_task for it.  The handler is one step: a cache write
\* landing between its cache read and its job write gives the same outcome
\* as the handler running wholly before that write.
\* Variant: the cache is never consulted.
CacheHitNever(h) == FALSE

CacheHit(h) == h \in DOMAIN cache

StartedTask(c) == [NoTask EXCEPT !.pc = "start", !.content = c]

\* Variant: the task is queued whether or not the cache answered.
TaskForAlways(c, hit) == StartedTask(c)

\* The background task queued by the handler: none on a cache hit.
TaskFor(c, hit) == IF hit THEN NoTask ELSE StartedTask(c)

AnalyzeArtifact(c, m) ==
    LET j == nextId
        h == Sha256(c)
        rec == IF CacheHit(h) THEN CachedJob(j, h, m, cache[h])
               ELSE NewJob(j, h, m)
    IN  /\ nextId <= MaxJobs
        /\ nextId' = nextId + 1
        /\ jobs' = SetKey(jobs, j, rec)
        /\ jobTtl' = SetKey(jobTtl, j, JobSetTtl)
        /\ hist' = [hist EXCEPT ![j] = Observe(@, rec.status)]
        /\ age' = [age EXCEPT ![j] = 0]
        /\ task' = [task EXCEPT ![j] = TaskFor(c, CacheHit(h))]
        /\ resp' = [resp EXCEPT ![j] =
                      Some([job_id |-> j, status |-> rec.status,
                            progress_hint |-> rec.progress_hint,
                            hit |-> CacheHit(h)])]
        /\ UNCHANGED <<cache, cacheTtl, calls, stored, cvars>>

\* ------------------------------------------------------- run_analysis_task
\* Variant: the exception is not caught and ends the task.
RaiseUncaught(t, e) == [t EXCEPT !.pc = "crashed", !.err = e]

\* An exception raised in the task body is caught by its handler.
Raise(t, e) == [t EXCEPT !.pc = "handler", !.err = e]
Goto(t, pc) == [t EXCEPT !.pc = pc]

\* Size guardrail, then the first update: RUNNING, "Normalizing artifact...".
TooLargeOffByOne(c) == Len(c) > MAX_CONTENT_SIZE + 1

TooLarge(c) == Len(c) > MAX_CONTENT_SIZE

StartRun(j) ==
    /\ task[j].pc = "start"
    /\ IF TooLarge(task[j].content)
       THEN /\ task' = [task EXCEPT ![j] = Raise(@, ErrSize)]
            /\ NoWrite
       ELSE IF JobLive(j)
       THEN /\ WriteJob(j, RUNNING, HintNormalizing, None, None)
            /\ task' = [task EXCEPT ![j] = Goto(@, "normalize")]
       ELSE /\ NoWrite
            /\ task' = [task EXCEPT ![j] = Raise(@, ErrJobGone)]
    /\ UNCHANGED <<cache, cacheTtl, nextId, calls, stored, resp, cvars>>

\* normalize_artifact(): returns a structure, or raises unexpectedly.
Normalize(j) ==
    /\ task[j].pc = "normalize"
    /\ calls' = [calls EXCEPT ![j].norm = @ + 1]
    /\ \E ok \in BOOLEAN :
         task' = [task EXCEPT ![j] = IF ok THEN Goto(@, "hint_heur")
                                     ELSE Raise(@, ErrInternal)]
    /\ UNCHANGED <<jobs, jobTtl, cache, cacheTtl, nextId, hist, stored,
                   age, resp, cvars>>

\* A progress update of a running job, then on to the next stage.
HintStep(j, from, hint, to) ==
    /\ task[j].pc = from
    /\ IF JobLive(j)
       THEN /\ WriteJob(j, RUNNING, hint, None, None)
            /\ task' = [task EXCEPT ![j] = Goto(@, to)]
       ELSE /\ NoWrite
            /\ task' = [task EXCEPT ![j] = Raise(@, ErrJobGone)]
    /\ UNCHANGED <<cache, cacheTtl, nextId, calls, stored, resp, cvars>>

\* Variant: after the heuristics hint the run goes on to the synthesis hint.
HeuristicsHintSkip(j) == HintStep(j, "hint_heur", HintHeuristics, "hint_synth")

HeuristicsHint(j) == HintStep(j, "hint_heur", HintHeuristics, "heuristics")

\* run_heuristics(): returns findings, or raises unexpectedly.
Heuristics(j) ==
    /\ task[j].pc = "heuristics"
    /\ calls' = [calls EXCEPT ![j].heur = @ + 1]
    /\ \E ok \in BOOLEAN :
         task' = [task EXCEPT ![j] = IF ok THEN Goto(@, "hint_synth")
                                     ELSE Raise(@, ErrInternal)]
    /\ UNCHANGED <<jobs, jobTtl, cache, cacheTtl, nextId, hist, stored,
                   age, resp, cvars>>

SynthesisHint(j) == HintStep(j, "hint_synth", HintSynthesizing, "synth")

\* --------------------------------------------------------- the agent call
\* analysis_agent.run(): each attempt invokes the model once.  A payload that
\* fails the schema is retried while output retries remain; a provider
\* failure is retried while retries remain; the two counters are separate.
AfterValid(t, o) == [t EXCEPT !.pc = "cache", !.out = Some(o)]

\* Variant: the last output retry is not granted.
AfterInvalidShort(t) ==
    IF t.sr + 1 < OUTPUT_RETRIES THEN [t EXCEPT !.sr = @ + 1]
    ELSE Raise(t, ErrSchema)

AfterInvalid(t) ==
    IF t.sr < OUTPUT_RETRIES THEN [t EXCEPT !.sr = @ + 1]
    ELSE Raise(t, ErrSchema)

\* The failure a call ends with when a provider failure finds no retry left:
\* the schema failure when the output retries are used up as well.
ExhaustedKind(t) == IF t.sr >= OUTPUT_RETRIES THEN ErrSchema ELSE ErrProvider

\* Variant: one more retry is granted after a provider failure.
AfterProviderErrorLong(t) ==
    IF t.pr < RETRIES + 1 THEN [t EXCEPT !.pr = @ + 1]
    ELSE Raise(t, ExhaustedKind(t))

AfterProviderError(t) ==
    IF t.pr < RETRIES THEN [t EXCEPT !.pr = @ + 1]
    ELSE Raise(t, ExhaustedKind(t))

SynthReturns(j) ==
    /\ task[j].pc = "synth"
    /\ calls' = [calls EXCEPT ![j].synth = @ + 1]
    /\ \E o \in RawOutputs :
         task' = [task EXCEPT ![j] = IF SchemaValid(o) THEN AfterValid(@, o)
                                     ELSE AfterInvalid(@)]
    /\ UNCHANGED <<jobs, jobTtl, cache, cacheTtl, nextId, hist, stored,
                   age, resp, cvars>>

SynthProviderFails(j) ==
    /\ task[j].pc = "synth"
    /\ calls' = [calls EXCEPT ![j].synth = @ + 1]
    /\ task' = [task EXCEPT ![j] = AfterProviderError(@)]
    /\ UNCHANGED <<jobs, jobTtl, cache, cacheTtl, nextId, hist, stored,
                   age, resp, cvars>>

\* ----------------------------------------------------------- result storage
CacheEntry(o) == [result |-> Some(o), markdown |-> Some(Markdown(o))]

\* Variant: the run goes on to complete the job without writing the cache.
StoreCacheSkipped(j) ==
    /\ task[j].pc = "cache"
    /\ task' = [task EXCEPT ![j] = Goto(@, "complete")]
    /\ UNCHANGED <<jobs, jobTtl, cache, cacheTtl, nextId, hist, calls,
                   stored, age, resp, cvars>>

\* redis.set(cache:{hash}, {result, markdown}, ex=CACHE_EXPIRATION)
StoreCache(j) ==
    /\ task[j].pc = "cache"
    /\ LET h == Sha256(task[j].content)
           e == CacheEntry(task[j].out[1])
       IN  /\ cache' = SetKey(cache, h, e)
           /\ cacheTtl' = SetKey(cacheTtl, h, CacheSetTtl)
           /\ stored' = [stored EXCEPT ![j] = Some([key |-> h, entry |-> e])]
    /\ task' = [task EXCEPT ![j] = Goto(@, "complete")]
    /\ UNCHANGED <<jobs, jobTtl, nextId, hist, calls, age, resp, cvars>>

\* update_job(COMPLETED, result, markdown)
CompleteJob(j) ==
    /\ task[j].pc = "complete"
    /\ IF JobLive(j)
       THEN /\ WriteJob(j, COMPLETED, HintComplete,
                        CacheEntry(task[j].out[1]).result,
                        CacheEntry(task[j].out[1]).markdown)
            /\ task' = [task EXCEPT ![j] = [Goto(@, "done") EXCEPT !.term = @ + 1]]
       ELSE /\ NoWrite
            /\ task' = [task EXCEPT ![j] = Raise(@, ErrJobGone)]
    /\ UNCHANGED <<cache, cacheTtl, nextId, calls, stored, resp, cvars>>

\* Variant: the FAILED update writes a fresh record when the key is gone.
FailJobRecreate(j) ==
    /\ task[j].pc = "handler"
    /\ IF JobLive(j)
       THEN WriteJob(j, FAILED, task[j].err, None, None)
       ELSE /\ jobs' = SetKey(jobs, j,
                         UpdatedJob(NewJob(j, Sha256(task[j].content), "none"),
                                    FAILED, task[j].err, None, None))
            /\ jobTtl' = SetKey(jobTtl, j, JobSetTtl)
            /\ hist' = [hist EXCEPT ![j] = Observe(@, FAILED)]
            /\ age' = [age EXCEPT ![j] = 0]
    /\ task' = [task EXCEPT ![j] = [Goto(@, "done") EXCEPT !.term = @ + 1]]
    /\ UNCHANGED <<cache, cacheTtl, nextId, calls, stored, resp, cvars>>

\* except Exception: update_job(FAILED, "Error: ...").  When the key is gone
\* the update raises inside the handler and the exception leaves the task.
FailJob(j) ==
    /\ task[j].pc = "handler"
    /\ IF JobLive(j)
       THEN /\ WriteJob(j, FAILED, task[j].err, None, None)
            /\ task' = [task EXCEPT ![j] = [Goto(@, "done") EXCEPT !.term = @ + 1]]
       ELSE /\ NoWrite
            /\ task' = [task EXCEPT ![j] = Goto(@, "crashed")]
    /\ UNCHANGED <<cache, cacheTtl, nextId, calls, stored, resp, cvars>>

\* ------------------------------------------------------------- environment
\* A task between two awaits of the agent is in a short local step.
InLocalStep(j) ==
    task[j].pc \in {"start", "normalize", "hint_heur", "heuristics",
                    "hint_synth", "cache", "complete", "handler"}

InFlight(j) == InLocalStep(j) \/ task[j].pc = "synth"

Expired(ttl) == {k \in DOMAIN ttl : ttl[k] <= 1}

\* One tick passes: every TTL drops by one and keys at zero are deleted.
Tick ==
    /\ \A j \in JobIds : ~InLocalStep(j)
    /\ age' = [j \in JobIds |-> IF age[j] < MaxAge THEN age[j] + 1 ELSE age[j]]
    /\ jobs' = DropKeys(jobs, Expired(jobTtl))
    /\ jobTtl' = [k \in (DOMAIN jobTtl) \ Expired(jobTtl) |-> jobTtl[k] - 1]
    /\ cache' = DropKeys(cache, Expired(cacheTtl))
    /\ cacheTtl' = [k \in (DOMAIN cacheTtl) \ Expired(cacheTtl) |-> cacheTtl[k] - 1]
    /\ UNCHANGED <<nextId, task, hist, calls, stored, resp, cvars>>

\* Variant: the tasks in flight are queued again after the restart.
RestartRequeue ==
    /\ \E j \in JobIds : InFlight(j)
    /\ task' = [j \in JobIds |-> IF InFlight(j) THEN StartedTask(task[j].content)
                                 ELSE task[j]]
    /\ UNCHANGED <<jobs, jobTtl, cache, cacheTtl, nextId, hist, calls,
                   stored, age, resp, cvars>>

\* The server process restarts: the store survives, background tasks do not.
Restart ==
    /\ \E j \in JobIds : InFlight(j)
    /\ task' = [j \in JobIds |-> IF InFlight(j) THEN Goto(NoTask, "lost")
                                 ELSE task[j]]
    /\ UNCHANGED <<jobs, jobTtl, cache, cacheTtl, nextId, hist, calls,
                   stored, age, resp, cvars>>

Next ==
    \/ \E c \in Contents, m \in Metadatas : AnalyzeArtifact(c, m)
    \/ \E j \in JobIds : StartRun(j)
    \/ \E j \in JobIds : Normalize(j)
    \/ \E j \in JobIds : HeuristicsHint(j)
    \/ \E j \in JobIds : Heuristics(j)
    \/ \E j \in JobIds : SynthesisHint(j)
    \/ \E j \in JobIds : SynthReturns(j)
    \/ \E j \in JobIds : SynthProviderFails(j)
    \/ \E j \in JobIds : StoreCache(j)
    \/ \E j \in JobIds : CompleteJob(j)
    \/ \E j \in JobIds : FailJob(j)
    \/ Tick
    \/ Restart

Spec == Init /\ [][Next]_allvars

\* The event loop keeps running a queued task, and every collaborator call
\* eventually returns or raises.  Nothing forces a submission, a tick or a
\* restart.
Fairness ==
    \A j \in JobIds :
        /\ WF_vars(StartRun(j))
        /\ WF_vars(Normalize(j))
        /\ WF_vars(HeuristicsHint(j))
        /\ WF_vars(Heuristics(j))
        /\ WF_vars(SynthesisHint(j))
        /\ WF_vars(SynthReturns(j) \/ SynthProviderFails(j))
        /\ WF_vars(StoreCache(j))
        /\ WF_vars(CompleteJob(j))
        /\ WF_vars(FailJob(j))

FairSpec == Spec /\ Fairness

\* ------------------------------------------------------------ GET handlers
\* GET /jobs/{job_id}
GetJobStatus(j) ==
    IF ~JobLive(j) THEN [code |-> 404]
    ELSE [code |-> 200, job_id |-> j, status |-> jobs[j].status,
          progress_hint |-> jobs[j].progress_hint]

\* Variant: the result is served for any live job.
GetJobResultAnyStatus(j) ==
    IF ~JobLive(j) THEN [code |-> 404]
    ELSE [code |-> 200, job_id |-> j, status |-> jobs[j].status,
          result |-> jobs[j].result, markdown |-> jobs[j].markdown]

\* GET /jobs/{job_id}/result
GetJobResult(j) ==
    IF ~JobLive(j) THEN [code |-> 404]
    ELSE IF jobs[j].status # COMPLETED THEN [code |-> 400]
    ELSE [code |-> 200, job_id |-> j, status |-> jobs[j].status,
          result |-> jobs[j].result, markdown |-> jobs[j].markdown]

\* GET /jobs: one summary per job key found by the scan, with the time since
\* the key was last set, JOB_EXPIRATION - ttl, from which created_at is derived.
ListJobs ==
    {[job_id |-> j, status |-> jobs[j].status,
      progress_hint |-> jobs[j].progress_hint,
      elapsed |-> JOB_EXPIRATION - jobTtl[j]] : j \in DOMAIN jobs}

\* created_at = current_time_ms - (elapsed * 1000)
MsPerSecond == 1000
CreatedAt(j, current_time_ms) ==
    current_time_ms - (JOB_EXPIRATION - jobTtl[j]) * MsPerSecond

\* Clock readings at which the list is requested.
CurrentTimes == {JOB_EXPIRATION * MsPerSecond, JOB_EXPIRATION * MsPerSecond + 1}

JobSummary(j, current_time_ms) ==
    [job_id |-> j, status |-> jobs[j].status,
     progress_hint |-> jobs[j].progress_hint,
     created_at |-> CreatedAt(j, current_time_ms)]

\* Variant: the list is sorted oldest first.
OldestFirst(l) ==
    \A i, k \in 1..Len(l) : i < k => l[i].created_at <= l[k].created_at

\* Sorted by created_at (newest first)
NewestFirst(l) ==
    \A i, k \in 1..Len(l) : i < k => l[i].created_at >= l[k].created_at

\* GET /jobs answers with one summary per job key the scan finds, sorted.
\* The scan order is arbitrary, so jobs with equal created_at come in any
\* order: every sorted arrangement is a possible answer.
JobListings(current_time_ms) ==
    LET keys == DOMAIN jobs
        n == Cardinality(keys)
        orders == {o \in [1..n -> keys] : \A i, k \in 1..n : o[i] = o[k] => i = k}
    IN  {l \in {[i \in 1..n |-> JobSummary(o[i], current_time_ms)] : o \in orders} :
            NewestFirst(l)}

\* ---------------------------------------------------------- cache key replay
\* The same sequence of contents is submitted to two fresh systems, with
\* content types and metadata chosen freely in each.  Every miss is processed
\* and its result cached before the next submission, within the cache TTL.
CACHE_KEY_PREFIX == "cache:"

RECURSIVE SeqsOver(_, _)
SeqsOver(B, n) == IF n = 0 THEN {<<>>}
                  ELSE SeqsOver(B, n - 1) \cup [1..n -> B]

ReplayBytes == {7, 8}
ReplayContents == SeqsOver(ReplayBytes, MaxLen) \ {<<>>}
ContentTypes == {"markdown", "openapi-yaml"}
ReplayMetadatas == {"none", "team"}
\* AnalysisRequest (content, content_type, metadata)
Requests == [content : ReplayContents, content_type : ContentTypes,
             metadata : ReplayMetadatas]
Runs == {"a", "b"}

\* Variant: the metadata is hashed into the key with the content.
CacheKeyWithMetadata(body) ==
    <<CACHE_KEY_PREFIX, Sha256(body.content), body.metadata>>

\* cache_key = f"{settings.CACHE_KEY_PREFIX}{content_hash}"
CacheKey(body) == <<CACHE_KEY_PREFIX, Sha256(body.content)>>

ReplayInit ==
    \E ra, rb \in [1..ReplayLen -> Requests] :
        /\ \A i \in 1..ReplayLen : ra[i].content = rb[i].content
        /\ replay = [r \in Runs |->
                       [reqs |-> IF r = "a" THEN ra ELSE rb,
                        cached |-> {}, hits |-> <<>>]]

\* One analysis request of a run: compute the key, check the cache, and on a
\* miss process the content and store the result under the key.
ReplaySubmit(r) ==
    LET run == replay[r]
        i == Len(run.hits) + 1
    IN  /\ i <= ReplayLen
        /\ replay' = [replay EXCEPT ![r] =
                         [run EXCEPT
                            !.hits = Append(@, CacheKey(run.reqs[i]) \in run.cached),
                            !.cached = @ \cup {CacheKey(run.reqs[i])}]]
        /\ UNCHANGED <<vars, srv, hook, polls, fetches, uivars>>

KeyInit == ServerInit /\ HookIdle /\ UiIdle /\ ReplayInit
KeyNext == \E r \in Runs : ReplaySubmit(r)
KeySpec == KeyInit /\ [][KeyNext]_allvars

\* ------------------------------------------------------------- useJobStatus
\* One mounted instance of the hook, for one job id.  The effect has run:
\* initPolling() has called pollStatus() and the first getJobStatus request
\* is out.  The server side is reduced to what it holds for that job.
GONE == "gone"
SrvStates == {QUEUED, RUNNING, COMPLETED, FAILED, GONE}

ApiOk(d) == [data |-> Some(d), error |-> None]
ApiErr(e) == [data |-> None, error |-> Some(e)]
NetworkError == "Network error"
ApiError(code) == <<"API Error", code>>

\* JobResponse for a live job.
HintOf(st) ==
    CASE st = QUEUED -> HintQueued
      [] st = RUNNING -> HintSynthesizing
      [] st = COMPLETED -> HintComplete
      [] st = FAILED -> ErrInternal
StatusData(st) == [status |-> st, progress_hint |-> HintOf(st)]
\* AnalysisResult of a Completed job.
ResultData == [status |-> COMPLETED, result |-> "result", markdown |-> "markdown"]

\* A request as issued; the hook was mounted or not at that moment.
Request(init) ==
    [phase |-> "sent", answer |-> None, init |-> init, mounted |-> hook.mounted]

HookInit ==
    /\ srv \in SrvStates
    /\ hook = [mounted |-> TRUE, pollInterval |-> "undefined",
               status |-> QUEUED, result |-> None, error |-> None,
               progressHint |-> None]
    /\ polls = <<[phase |-> "sent", answer |-> None, init |-> TRUE,
                  mounted |-> TRUE]>>
    /\ fetches = <<>>

\* The job advances on the server, or its key expires.
ServerAdvance ==
    /\ \E st \in SrvStates :
         /\ \/ srv = QUEUED /\ st \in {RUNNING, FAILED}
            \/ srv = RUNNING /\ st \in {COMPLETED, FAILED}
            \/ srv # GONE /\ st = GONE
         /\ srv' = st
    /\ UNCHANGED <<vars, replay, hook, polls, fetches, uivars>>

\* api(): the response, or the error text of a failed fetch.
StatusAnswers ==
    {ApiErr(NetworkError),
     IF srv = GONE THEN ApiErr(ApiError(404)) ELSE ApiOk(StatusData(srv))}
ResultAnswers ==
    {ApiErr(NetworkError),
     IF srv = GONE THEN ApiErr(ApiError(404))
     ELSE IF srv # COMPLETED THEN ApiErr(ApiError(400))
     ELSE ApiOk(ResultData)}

\* GET /jobs/{job_id} is handled for request i.
HandleStatus(i) ==
    /\ i \in 1..Len(polls) /\ polls[i].phase = "sent"
    /\ \E a \in StatusAnswers :
         polls' = [polls EXCEPT ![i].phase = "answered", ![i].answer = Some(a)]
    /\ UNCHANGED <<vars, replay, srv, hook, fetches, uivars>>

\* GET /jobs/{job_id}/result is handled for request k.
HandleResult(k) ==
    /\ k \in 1..Len(fetches) /\ fetches[k].phase = "sent"
    /\ \E a \in ResultAnswers :
         fetches' = [fetches EXCEPT ![k].phase = "answered", ![k].answer = Some(a)]
    /\ UNCHANGED <<vars, replay, srv, hook, polls, uivars>>

\* A state setter: a no-op once the component has unmounted.
SetState(h, field, v) == IF h.mounted THEN [h EXCEPT ![field] = v] ELSE h

\* Variant: the interval is left running.
ClearIntervalNoop(h) == h

\* if (pollInterval) clearInterval(pollInterval)
ClearInterval(h) ==
    IF h.pollInterval = "undefined" THEN h
    ELSE [h EXCEPT !.pollInterval = "cleared"]

\* pollStatus() after its await, on response a: the hook it leaves, whether
\* it starts fetchResult(), and its return value.
PollOutcome(h, a) ==
    IF a.error # None \/ a.data = None
    THEN [hook |-> ClearInterval(SetState(h, "error",
                       IF a.error # None THEN a.error
                       ELSE Some("Failed to fetch job status"))),
          fetch |-> FALSE, continue |-> FALSE]
    ELSE LET d == a.data[1]
             h1 == SetState(SetState(h, "status", d.status),
                            "progressHint", Some(d.progress_hint))
         IN  CASE d.status = COMPLETED ->
                    [hook |-> ClearInterval(h1), fetch |-> TRUE,
                     continue |-> FALSE]
               [] d.status = FAILED ->
                    [hook |-> SetState(ClearInterval(h1), "error", Some("Job failed")),
                     fetch |-> FALSE, continue |-> FALSE]
               [] OTHER ->
                    [hook |-> h1, fetch |-> FALSE, continue |-> TRUE]

\* The response of request i arrives: pollStatus() resumes, and for the first
\* request initPolling() resumes after it and may set the interval.
PollResolves(i) ==
    /\ i \in 1..Len(polls) /\ polls[i].phase = "answered"
    /\ LET o == PollOutcome(hook, polls[i].answer[1])
       IN  /\ hook' = IF polls[i].init /\ o.continue
                       THEN [o.hook EXCEPT !.pollInterval = "active"]
                       ELSE o.hook
           /\ fetches' = IF o.fetch THEN Append(fetches, Request(FALSE))
                          ELSE fetches
    /\ polls' = [polls EXCEPT ![i].phase = "resolved"]
    /\ UNCHANGED <<vars, replay, srv, uivars>>

\* setInterval(pollStatus, POLL_INTERVAL) fires: one more request goes out,
\* whether or not earlier ones have been answered.
IntervalFires ==
    /\ hook.pollInterval = "active"
    /\ Len(polls) < MaxPolls
    /\ polls' = Append(polls, Request(FALSE))
    /\ UNCHANGED <<vars, replay, srv, hook, fetches, uivars>>

\* fetchResult() after its await: the result is kept; an error is only logged.
ResultResolves(k) ==
    /\ k \in 1..Len(fetches) /\ fetches[k].phase = "answered"
    /\ LET a == fetches[k].answer[1]
       IN  hook' = IF a.error # None \/ a.data = None THEN hook
                   ELSE SetState(hook, "result", a.data)
    /\ fetches' = [fetches EXCEPT ![k].phase = "resolved"]
    /\ UNCHANGED <<vars, replay, srv, polls, uivars>>

\* The component unmounts or its jobId changes: the effect's cleanup runs.
Unmount ==
    /\ hook.mounted
    /\ hook' = ClearInterval([hook EXCEPT !.mounted = FALSE])
    /\ UNCHANGED <<vars, replay, srv, polls, fetches, uivars>>

HookStart == ServerInit /\ ReplayIdle /\ UiIdle /\ HookInit
HookNext ==
    \/ ServerAdvance
    \/ \E i \in 1..MaxPolls : HandleStatus(i)
    \/ \E i \in 1..MaxPolls : PollResolves(i)
    \/ IntervalFires
    \/ \E k \in 1..MaxPolls : HandleResult(k)
    \/ \E k \in 1..MaxPolls : ResultResolves(k)
    \/ Unmount
HookSpec == HookStart /\ [][HookNext]_allvars

\* --------------------------- the editor store, the home page, the dialog
\* Text is a sequence of characters; a blank, an opening brace, a letter.
SPACE == " "
BRACE == "{"
UiChars == {SPACE, BRACE, "a"}
UiContents == SeqsOver(UiChars, UiLen)

\* String.prototype.trim()
RECURSIVE TrimStart(_)
TrimStart(s) ==
    IF s = <<>> THEN s
    ELSE IF Head(s) = SPACE THEN TrimStart(Tail(s)) ELSE s
RECURSIVE TrimEnd(_)
TrimEnd(s) ==
    IF s = <<>> THEN s
    ELSE IF s[Len(s)] = SPACE THEN TrimEnd(SubSeq(s, 1, Len(s) - 1)) ELSE s
Trim(s) == TrimEnd(TrimStart(s))

\* A file name or URL, by what the code tests of it: its protocol, whether
\* it names openapi or swagger, whether it ends in .json.
NoName == [name |-> "", http |-> FALSE, openapi |-> FALSE, json |-> FALSE]
Files ==
    {[name |-> "notes.md", http |-> FALSE, openapi |-> FALSE, json |-> FALSE],
     [name |-> "openapi.yaml", http |-> FALSE, openapi |-> TRUE, json |-> FALSE]}
Urls ==
    {[name |-> "https://a/openapi.json", http |-> TRUE, openapi |-> TRUE,
      json |-> TRUE],
     [name |-> "https://b/notes", http |-> TRUE, openapi |-> FALSE,
      json |-> FALSE],
     [name |-> "ftp://c/notes", http |-> FALSE, openapi |-> FALSE,
      json |-> FALSE]}
IsValidUrl(u) == u.http

DetectContentType(filename, content) ==
    IF filename.openapi
    THEN IF filename.json
            \/ (Trim(content) # <<>> /\ Head(Trim(content)) = BRACE)
         THEN "openapi-json" ELSE "openapi-yaml"
    ELSE "markdown"

\* type ContentType
ContentType == {"markdown", "openapi-yaml", "openapi-json"}

\* The store's actions.
SetContent(s, content, type) ==
    [s EXCEPT !.content = content, !.contentType = type]
SetMetadata(s, metadata) == [s EXCEPT !.metadata = metadata]
ClearContent(s) ==
    [content |-> <<>>, contentType |-> "markdown", metadata |-> None]

\* { ...metadata, sourceUrl: url }
WithSourceUrl(metadata, url) ==
    IF metadata = None THEN "sourceUrl" :> url
    ELSE ("sourceUrl" :> url) @@ metadata[1]
\* !!metadata?.sourceUrl
IsFetched(s) ==
    s.metadata # None /\ "sourceUrl" \in DOMAIN s.metadata[1]

\* processFile: the file has been read.
ProcessFile(file, content) ==
    /\ editor' = SetContent(editor, content, DetectContentType(file, content))
    /\ UNCHANGED <<vars, replay, srv, hook, polls, fetches, home, dialog>>

\* handlePasteSubmit
HandlePasteSubmit(pasteContent) ==
    /\ Trim(pasteContent) # <<>>
    /\ editor' = SetContent(editor, pasteContent,
                            DetectContentType(NoName, pasteContent))
    /\ UNCHANGED <<vars, replay, srv, hook, polls, fetches, home, dialog>>

\* handleUrlSubmit up to its await: the request goes out with the metadata
\* of the render the handler belongs to.
HandleUrlSubmit(url) ==
    /\ IsValidUrl(url)
    /\ Len(home.fetches) < MaxFetches
    /\ home' = [home EXCEPT !.fetches =
                   Append(@, [url |-> url, metadata |-> editor.metadata,
                              phase |-> "sent"])]
    /\ UNCHANGED <<vars, replay, srv, hook, polls, fetches, editor, dialog>>

\* What fetchOpenAPIFromUrl gives its caller: text, an error, an exception.
Returned(data, error) == [thrown |-> FALSE, data |-> data, error |-> error]
THROWN == [thrown |-> TRUE, data |-> None, error |-> None]
FetchResults ==
    {Returned(Some(c), None) : c \in UiContents}
        \cup {Returned(None, Some("Failed to fetch")), THROWN}

\* handleUrlSubmit after its await.
UrlResolves(i) ==
    /\ i \in 1..Len(home.fetches) /\ home.fetches[i].phase = "sent"
    /\ \E r \in FetchResults :
         LET f == home.fetches[i]
             loaded == ~r.thrown /\ r.error = None /\ r.data # None
                           /\ r.data[1] # <<>>
         IN  /\ editor' =
                   IF loaded
                   THEN SetMetadata(
                            SetContent(editor, r.data[1],
                                       DetectContentType(f.url, r.data[1])),
                            Some(WithSourceUrl(f.metadata, f.url.name)))
                   ELSE editor
             /\ home' = [home EXCEPT
                           !.fetches[i].phase = "resolved",
                           !.fetched = IF loaded
                                       THEN @ \cup {<<f.url.name, r.data[1]>>}
                                       ELSE @]
    /\ UNCHANGED <<vars, replay, srv, hook, polls, fetches, dialog>>

\* The Clear button of the editor page.
ClearMarkdown ==
    /\ editor.content # <<>>
    /\ editor' = ClearContent(editor)
    /\ UNCHANGED <<vars, replay, srv, hook, polls, fetches, home, dialog>>

\* The Start Analysis button of the editor page, and closing the dialog.
OpenDialog ==
    /\ editor.content # <<>> /\ ~dialog.open
    /\ dialog' = [dialog EXCEPT !.open = TRUE]
    /\ UNCHANGED <<vars, replay, srv, hook, polls, fetches, editor, home>>
CloseDialog ==
    /\ dialog.open
    /\ dialog' = [dialog EXCEPT !.open = FALSE]
    /\ UNCHANGED <<vars, replay, srv, hook, polls, fetches, editor, home>>

\* What the form holds at a submit: team, and the two selects.
FormData ==
    [team : {"Engineering"}, riskTolerance : {"", "low"}, depth : {""}]

\* analyzeArtifact: what it returns for a request, or that the call of the
\* server action itself failed.
AnalyzeArtifactAction(content, contentType) ==
    IF content = <<>> \/ contentType = ""
    THEN {Returned(None, Some("content and contentType are required"))}
    ELSE {Returned(Some([job_id |-> j]), None) : j \in JobIds}
            \cup {Returned(None, None),
                  Returned(None, Some("Internal server error"))}
AnalyzeResults(content, contentType) ==
    AnalyzeArtifactAction(content, contentType) \cup {THROWN}

\* Variant: the button is disabled for blank content only.
SubmitDisabledBlankOnly == Trim(editor.content) = <<>>

\* disabled={isAnalyzing || !markdown.trim()}
SubmitDisabled == dialog.isAnalyzing \/ Trim(editor.content) = <<>>

\* handleAnalyze up to its await: setIsAnalyzing(true), setMetadata(data),
\* and analyzeArtifact is called; its arguments fix what it can give back.
HandleAnalyze(data) ==
    /\ dialog.open /\ ~SubmitDisabled
    /\ Len(dialog.calls) < MaxSubmits
    /\ IF Trim(editor.content) = <<>>
       THEN UNCHANGED <<editor, dialog>>
       ELSE LET d1 == [dialog EXCEPT !.isAnalyzing = TRUE]
            IN  /\ editor' = SetMetadata(editor, Some(data))
                /\ dialog' = [d1 EXCEPT !.calls =
                                 Append(@, [phase |-> "sent",
                                            results |-> AnalyzeResults(
                                                editor.content,
                                                editor.contentType),
                                            analyzing |-> d1.isAnalyzing,
                                            result |-> None])]
    /\ UNCHANGED <<vars, replay, srv, hook, polls, fetches, home>>

\* router.push(`/jobs/${job_id}`)
JobRoute(job_id) == <<"/jobs", job_id>>

\* handleAnalyze after its await, on result r of call k.
AfterAnalyze(d, k, r) ==
    LET d1 == IF ~r.thrown /\ r.error = None /\ r.data # None
              THEN [d EXCEPT !.open = FALSE,
                             !.pushed = Append(@, [call |-> k,
                                 route |-> JobRoute(r.data[1].job_id)])]
              ELSE d
    IN  [d1 EXCEPT !.isAnalyzing = FALSE]

AnalyzeResolves(k) ==
    /\ k \in 1..Len(dialog.calls) /\ dialog.calls[k].phase = "sent"
    /\ \E r \in dialog.calls[k].results :
         dialog' = [AfterAnalyze(dialog, k, r) EXCEPT
                       !.calls[k].phase = "resolved",
                       !.calls[k].result = Some(r)]
    /\ UNCHANGED <<vars, replay, srv, hook, polls, fetches, editor, home>>

UiNext ==
    \/ \E f \in Files, c \in UiContents : ProcessFile(f, c)
    \/ \E c \in UiContents : HandlePasteSubmit(c)
    \/ \E u \in Urls : HandleUrlSubmit(u)
    \/ \E i \in 1..MaxFetches : UrlResolves(i)
    \/ ClearMarkdown
    \/ OpenDialog
    \/ CloseDialog
    \/ \E data \in FormData : HandleAnalyze(data)
    \/ \E k \in 1..MaxSubmits : AnalyzeResolves(k)
UiSpec == Init /\ [][UiNext]_allvars

\* ------------------------------------------------------------- vocabulary
Submitted(j) == resp[j] # None
WasHit(j) == Submitted(j) /\ resp[j][1].hit
Last(s) == s[Len(s)]
IsPrefix(s, t) == Len(s) <= Len(t) /\ \A i \in 1..Len(s) : s[i] = t[i]
RunEnded(j) == task[j].pc \in {"done", "crashed"}
Terminal(j) == Len(hist[j]) > 0 /\ Last(hist[j]) \in {COMPLETED, FAILED}
BecameCompleted(j) == Len(hist[j]) > 0 /\ Last(hist[j]) = COMPLETED
BecameFailed(j) == Len(hist[j]) > 0 /\ Last(hist[j]) = FAILED
\* The agent returned schema-invalid output on the first two attempts and
\* valid output on the third.
TwoInvalidThenValid(j) ==
    task[j].sr = 2 /\ task[j].pr = 0 /\ task[j].out # None
\* The agent returned no valid output within the output-retry budget.
NeverValid(j) == task[j].err = ErrSchema
\* The job key was gone when the run came to its terminal write.
ExpiredBeforeEnd(j) == task[j].pc = "crashed" /\ ~JobLive(j)
Zero == [norm |-> 0, heur |-> 0, synth |-> 0]
\* A resolved poll saw COMPLETED or FAILED, or its request returned an error.
StopSeen ==
    \E i \in 1..Len(polls) :
        /\ polls[i].phase = "resolved"
        /\ \/ polls[i].answer[1].error # None
           \/ polls[i].answer[1].data[1].status \in {COMPLETED, FAILED}
\* The calls of analyzeArtifact the dialog is waiting for.
Pending == {k \in 1..Len(dialog.calls) : dialog.calls[k].phase = "sent"}
\* The positions of a run at which its next step is an update of its job.
AtJobWrite(j) ==
    \/ task[j].pc \in {"hint_heur", "hint_synth", "complete", "handler"}
    \/ task[j].pc = "start" /\ Len(task[j].content) <= MAX_CONTENT_SIZE
\* The positions a run can take next, stage by stage.
NextStages(pc) ==
    CASE pc = "start" -> {"normalize", "handler"}
      [] pc = "normalize" -> {"hint_heur", "handler"}
      [] pc = "hint_heur" -> {"heuristics", "handler"}
      [] pc = "heuristics" -> {"hint_synth", "handler"}
      [] pc = "hint_synth" -> {"synth", "handler"}
      [] pc = "synth" -> {"synth", "cache", "handler"}
      [] pc = "cache" -> {"complete"}
      [] pc = "complete" -> {"done", "handler"}
      [] pc = "handler" -> {"done", "crashed"}
      [] OTHER -> {}
\* The job writes of a run: from, to, status written, hint written.
StageWrites(j) ==
    {<<"start", "normalize", RUNNING, HintNormalizing>>,
     <<"hint_heur", "heuristics", RUNNING, HintHeuristics>>,
     <<"hint_synth", "synth", RUNNING, HintSynthesizing>>,
     <<"complete", "done", COMPLETED, HintComplete>>,
     <<"handler", "done", FAILED, task[j].err>>}
\* The agent call of the run has returned or raised.
CallEnded(j) == task[j].out # None \/ task[j].err \in {ErrSchema, ErrProvider}

\* ------------------------------------------------------------------ claims

\* C1: for every job the statuses written to the store, in order, form a
\* prefix of Queued, Running, Completed or of Queued, Running, Failed (so no
\* write follows a terminal status with a different one).
C1_MonotonicLifecycle ==
    \A j \in JobIds :
        \/ IsPrefix(hist[j], <<QUEUED, RUNNING, COMPLETED>>)
        \/ IsPrefix(hist[j], <<QUEUED, RUNNING, FAILED>>)

\* C2: a submission whose content has a live cache entry when it is handled
\* starts no background task and makes no collaborator call; only a task in
\* its agent call ever invokes the agent.
C2_CacheShortCircuit ==
    [][\A j \in JobIds :
         /\ (~Submitted(j) /\ Submitted(j)' /\ jobs'[j].content_hash \in DOMAIN cache)
               => (task'[j].pc = "none" /\ calls' = calls)
         /\ (calls'[j].synth # calls[j].synth) => task[j].pc = "synth"
         /\ (task[j].pc = "none" /\ Submitted(j)) => task'[j].pc = "none"]_vars

C2_Witness ==
    \E j \in JobIds :
        WasHit(j) /\ task[j].pc = "none" /\ calls[j] = Zero /\ JobLive(j)

\* C3: a job answered from the cache is Completed from its creation, and its
\* result and markdown are those a run on the same content wrote to the cache.
C3_CachedPayload ==
    \A j \in JobIds :
        WasHit(j) =>
            /\ resp[j][1].status = COMPLETED
            /\ hist[j] = <<COMPLETED>>
            /\ JobLive(j) =>
                 /\ jobs[j].status = COMPLETED
                 /\ jobs[j].result # None
                 /\ jobs[j].markdown # None
                 /\ \E i \in 1..(j - 1) :
                      /\ stored[i] # None
                      /\ stored[i][1].key = jobs[j].content_hash
                      /\ stored[i][1].entry.result = jobs[j].result
                      /\ stored[i][1].entry.markdown = jobs[j].markdown

C3_Witness ==
    \E j \in JobIds :
        /\ WasHit(j) /\ JobLive(j) /\ jobs[j].status = COMPLETED
        /\ \E i \in 1..(j - 1) : task[i].pc = "done" /\ stored[i] # None
                                 /\ stored[i][1].entry.result = jobs[j].result

\* C4: a run on content over the ceiling invokes no normalizer, heuristics or
\* agent, writes no cache entry, and ends with the job Failed with the
\* size-limit error.
C4_SizeGuard ==
    \A j \in JobIds :
        (task[j].pc # "none" /\ Len(task[j].content) > MAX_CONTENT_SIZE) =>
            /\ calls[j] = Zero
            /\ stored[j] = None
            /\ task[j].pc \in {"start", "handler", "done"}
            /\ task[j].pc = "done" =>
                 /\ hist[j] = <<QUEUED, FAILED>>
                 /\ JobLive(j) => (jobs[j].status = FAILED
                                   /\ jobs[j].progress_hint = ErrSize
                                   /\ jobs[j].result = None)

C4_Witness ==
    \E j \in JobIds :
        /\ task[j].pc = "done" /\ Len(task[j].content) > MAX_CONTENT_SIZE
        /\ JobLive(j) /\ jobs[j].status = FAILED
        /\ jobs[j].progress_hint = ErrSize

C6_TtlExpiry ==
    \A j \in JobIds :
        (Submitted(j) /\ age[j] >= JOB_EXPIRATION) =>
            /\ GetJobStatus(j).code = 404
            /\ \A e \in ListJobs : e.job_id # j

C6_Witness ==
    \E j \in JobIds :
        /\ Submitted(j) /\ Len(hist[j]) > 0 /\ age[j] >= JOB_EXPIRATION
        /\ GetJobStatus(j).code = 404

\* C7: a run in which the agent call failed after its retries, or any stage
\* raised, ends in its handler with the job Failed and an error text, has
\* written no cache entry, and its exception does not leave the task.
C7_FailureHandling ==
    \A j \in JobIds :
        (RunEnded(j) /\ task[j].err # NoErr) =>
            /\ task[j].pc = "done"
            /\ BecameFailed(j)
            /\ stored[j] = None

C9_PayloadOnlyWhenTerminal ==
    \A j \in DOMAIN jobs :
        /\ (jobs[j].result # None \/ jobs[j].markdown # None)
              => jobs[j].status = COMPLETED
        /\ jobs[j].progress_hint \in ErrorHints => jobs[j].status = FAILED

C9_Witness ==
    \E j, k \in DOMAIN jobs :
        /\ jobs[j].status = COMPLETED /\ jobs[j].result # None
        /\ jobs[k].status = FAILED /\ jobs[k].progress_hint \in ErrorHints

\* C10: GET /jobs/{job_id}/result answers 200 with the stored result and
\* markdown exactly for a live Completed job, 400 for any other live job and
\* 404 for an id that is unknown or expired.
C10_ResultEndpoint ==
    \A j \in JobIds :
        LET r == GetJobResult(j) IN
        /\ r.code \in {200, 400, 404}
        /\ r.code = 404 <=> ~JobLive(j)
        /\ r.code = 400 <=> (JobLive(j) /\ jobs[j].status # COMPLETED)
        /\ r.code = 200 =>
             /\ jobs[j].status = COMPLETED
             /\ r.result # None /\ r.markdown # None
             /\ r.result = jobs[j].result /\ r.markdown = jobs[j].markdown

C10_Witness ==
    \E j, k \in JobIds :
        /\ Submitted(j) /\ GetJobResult(j).code = 404
        /\ JobLive(k) /\ jobs[k].status \in {QUEUED, RUNNING, FAILED}
        /\ GetJobResult(k).code = 400

\* C11: a live Failed job shows an error text on GET /jobs/{job_id}, and the
\* answer of GET /jobs/{job_id}/result for it differs from the answer the
\* same endpoint gives for a live job that is still Queued or Running.
C11_FailedDistinguishable ==
    \A j \in DOMAIN jobs :
        jobs[j].status = FAILED =>
            /\ GetJobStatus(j).code = 200
            /\ GetJobStatus(j).progress_hint \in ErrorHints
            /\ \A k \in DOMAIN jobs :
                 jobs[k].status \in {QUEUED, RUNNING}
                     => GetJobResult(j) # GetJobResult(k)

C13_MissCreatesOneJobOneRun ==
    [][\A j \in JobIds :
         /\ (~Submitted(j) /\ Submitted(j)'
                /\ jobs'[j].content_hash \notin DOMAIN cache) =>
               /\ j \notin DOMAIN jobs
               /\ DOMAIN jobs' = DOMAIN jobs \cup {j}
               /\ \A k \in DOMAIN jobs : jobs'[k] = jobs[k]
               /\ jobs'[j].status = QUEUED
               /\ hist'[j] = <<QUEUED>>
               /\ task[j].pc = "none" /\ task'[j].pc = "start"
               /\ \A k \in JobIds \ {j} : task'[k] = task[k]
               /\ calls' = calls
               /\ resp'[j][1].job_id = j /\ resp'[j][1].status = QUEUED
         /\ (task'[j].pc = "start" /\ task[j].pc # "start") => ~Submitted(j)
      ]_vars

C13_Witness ==
    \E j \in JobIds :
        /\ Submitted(j) /\ ~WasHit(j) /\ task[j].pc = "start"
        /\ JobLive(j) /\ jobs[j].status = QUEUED
        /\ resp[j][1].status = QUEUED /\ calls[j] = Zero
        /\ \E k \in JobIds \ {j} : InFlight(k)

C15_RetryBudgets ==
    \A j \in JobIds :
        task[j].pc \notin {"none", "lost"} =>
            /\ task[j].sr <= OUTPUT_RETRIES
            /\ task[j].pr <= RETRIES
            /\ calls[j].synth <= TOTAL_ATTEMPTS
            /\ calls[j].synth
                  = task[j].sr + task[j].pr + (IF CallEnded(j) THEN 1 ELSE 0)
            /\ task[j].err = ErrSchema => task[j].sr = OUTPUT_RETRIES
            /\ task[j].err = ErrProvider => task[j].pr = RETRIES
            /\ (task[j].err \in {ErrSchema, ErrProvider}
                  /\ task[j].sr = OUTPUT_RETRIES /\ task[j].pr = RETRIES)
                  => task[j].err = ErrSchema

C15_Witness ==
    \E j, k \in JobIds :
        /\ task[j].err = ErrSchema
        /\ task[j].sr = OUTPUT_RETRIES /\ task[j].pr = RETRIES
        /\ calls[j].synth = OUTPUT_RETRIES + RETRIES + 1
        /\ task[k].err = ErrProvider /\ task[k].sr < OUTPUT_RETRIES

\* C16: once a poll of the hook has seen COMPLETED or FAILED, or a status
\* request has returned an error, no further getJobStatus request is issued
\* and the polling interval is not active.
C16_NoPollAfterStop ==
    [][StopSeen => (Len(polls') = Len(polls) /\ hook.pollInterval # "active"
                    /\ hook'.pollInterval # "active")]_allvars

C16_Witness ==
    /\ StopSeen
    /\ hook.mounted /\ hook.pollInterval = "cleared"
    /\ Len(polls) = 2 /\ polls[2].phase = "resolved"
    /\ polls[2].answer[1].data # None
    /\ polls[2].answer[1].data[1].status = COMPLETED

\* C17: after the hook has unmounted, no polling interval is active and no
\* getJobStatus request is issued, whatever point the polling had reached
\* when it unmounted.
C17_NoPollAfterUnmount ==
    ~hook.mounted =>
        /\ hook.pollInterval # "active"
        /\ \A i \in 1..Len(polls) : polls[i].mounted

C19_SlidingTtl ==
    /\ [][\A j \in JobIds :
            (j \in DOMAIN jobs' /\ (j \notin DOMAIN jobs \/ jobs'[j] # jobs[j]))
                => (jobTtl'[j] = JOB_EXPIRATION /\ age'[j] = 0)]_vars
    /\ [](\A j \in JobIds :
            Submitted(j) =>
                /\ JobLive(j) <=> age[j] < JOB_EXPIRATION
                /\ JobLive(j) => jobTtl[j] = JOB_EXPIRATION - age[j])

C19_Witness ==
    \E j, k \in JobIds :
        /\ j < k /\ Submitted(k) /\ ~JobLive(k)
        /\ ~WasHit(j) /\ JobLive(j) /\ hist[j] = <<QUEUED, RUNNING, COMPLETED>>
        /\ age[j] > 0

C21_CacheOverwriteOwnLifetime ==
    /\ [](\A h \in Hashes : \A o1, o2 \in {o \in RawOutputs : SchemaValid(o)} :
            /\ SetKey(SetKey(cache, h, CacheEntry(o1)), h, CacheEntry(o1))
                  = SetKey(cache, h, CacheEntry(o1))
            /\ SetKey(SetKey(cache, h, CacheEntry(o1)), h, CacheEntry(o2))
                  = SetKey(cache, h, CacheEntry(o2))
            /\ h \in DOMAIN cache => SetKey(cache, h, cache[h]) = cache)
    /\ [][/\ \A j \in JobIds :
              stored'[j] # stored[j] =>
                  /\ cache'[stored'[j][1].key] = stored'[j][1].entry
                  /\ cacheTtl'[stored'[j][1].key] = CACHE_EXPIRATION
                  /\ \A h \in DOMAIN cache :
                        h # stored'[j][1].key =>
                            (h \in DOMAIN cache' /\ cache'[h] = cache[h]
                             /\ cacheTtl'[h] = cacheTtl[h])
          /\ \A h \in DOMAIN cache :
              /\ cacheTtl[h] > 1 => h \in DOMAIN cache'
              /\ h \in DOMAIN cache' =>
                    cacheTtl'[h] \in {cacheTtl[h], cacheTtl[h] - 1, CACHE_EXPIRATION}
              /\ (h \in DOMAIN cache' /\ \A j \in JobIds : stored'[j] = stored[j])
                    => cache'[h] = cache[h]
      ]_vars

C21_Witness ==
    \E j \in JobIds :
        /\ stored[j] # None /\ BecameCompleted(j) /\ ~JobLive(j)
        /\ stored[j][1].key \in DOMAIN cache
        /\ cache[stored[j][1].key] = stored[j][1].entry
        /\ \E k \in JobIds \ {j} :
              stored[k] # None /\ stored[k][1].key = stored[j][1].key
              /\ stored[k][1].entry # stored[j][1].entry

\* C22: a submission whose content another job was submitted with, handled
\* while no run has stored an entry for that content, misses the cache and
\* gets a job and a run of its own; every run that got an output called the
\* normalizer and the heuristics once and the agent itself; and every run
\* that comes to its cache write stores its own entry under the key, over
\* whatever another run stored there.
C22_NoSingleFlight ==
    /\ [][\A j, k \in JobIds :
            (/\ j # k /\ Submitted(j) /\ ~Submitted(k) /\ Submitted(k)'
             /\ task[j].pc \notin {"none", "lost"}
             /\ jobs'[k].content_hash = Sha256(task[j].content)
             /\ \A i \in JobIds : stored[i] = None) =>
                /\ ~resp'[k][1].hit
                /\ jobs'[k].status = QUEUED /\ jobs'[k].job_id # j
                /\ task'[k].pc = "start" /\ task'[j] = task[j]]_vars
    /\ [][\A j \in JobIds :
            (task[j].pc = "cache" /\ task'[j].pc = "complete") =>
                /\ cache'[Sha256(task[j].content)] = CacheEntry(task[j].out[1])
                /\ stored'[j] # None]_vars
    /\ [](\A j \in JobIds :
            task[j].out # None =>
                (calls[j].norm = 1 /\ calls[j].heur = 1 /\ calls[j].synth >= 1))

C22_Witness ==
    \E j, k \in JobIds :
        /\ j # k /\ ~WasHit(j) /\ ~WasHit(k)
        /\ stored[j] # None /\ stored[k] # None
        /\ stored[j][1].key = stored[k][1].key
        /\ stored[j][1].entry # stored[k][1].entry
        /\ calls[j].synth >= 1 /\ calls[k].synth >= 1
        /\ stored[k][1].key \in DOMAIN cache
        /\ cache[stored[k][1].key] = stored[k][1].entry
        /\ task[j].pc = "done" /\ task[k].pc = "done"

C24_CreateNeverOverwrites ==
    \A j \in DOMAIN jobs :
        /\ jobs[j].job_id = j
        /\ \A c \in Contents, m \in Metadatas :
              CreateJob(jobs, j, Sha256(c), m) = jobs

C26_RestartDiscardsRun ==
    /\ [][\A j \in JobIds :
            /\ (task'[j].pc = "start" /\ task[j].pc # "start") => ~Submitted(j)
            /\ (InFlight(j) /\ ~InFlight(j)')
                  => task'[j].pc \in {"done", "crashed", "lost"}
            /\ task[j].pc = "lost" =>
                  /\ task'[j] = task[j]
                  /\ calls'[j] = calls[j] /\ hist'[j] = hist[j]
                  /\ JobLive(j)' => (JobLive(j) /\ jobs'[j] = jobs[j])]_vars
    /\ [](\A j \in JobIds :
            task[j].pc = "lost" =>
                /\ ~Terminal(j)
                /\ JobLive(j) => jobs[j].status \in {QUEUED, RUNNING}
                /\ JobLive(j) <=> age[j] < JOB_EXPIRATION
                /\ ~JobLive(j) => GetJobStatus(j).code = 404)

C26_Witness ==
    \E j, k \in JobIds :
        /\ task[j].pc = "lost" /\ ~JobLive(j) /\ hist[j] = <<QUEUED, RUNNING>>
        /\ task[k].pc = "lost" /\ JobLive(k) /\ jobs[k].status = QUEUED
        /\ age[k] > 0

\* C27: once the hook has reported COMPLETED it issues getJobResult, and when
\* every request of the hook has resolved and no interval is left to issue
\* another, the consumer holds a result or an error: never a completed
\* status with neither.
C27_CompletedHasResultOrError ==
    (hook.mounted /\ hook.status = COMPLETED) =>
        /\ Len(fetches) >= 1
        /\ ( /\ hook.pollInterval # "active"
             /\ \A i \in 1..Len(polls) : polls[i].phase = "resolved"
             /\ \A k \in 1..Len(fetches) : fetches[k].phase = "resolved")
               => (hook.result # None \/ hook.error # None)

\* C28: whatever the order in which the status responses resolve, the status
\* of the hook never moves from COMPLETED or FAILED back to queued or
\* running, and getJobResult is issued at most once.
C28_TerminalSticksOneFetch ==
    /\ [][hook.status \in {COMPLETED, FAILED}
             => hook'.status \notin {QUEUED, RUNNING}]_allvars
    /\ [](Len(fetches) <= 1)

\* C29: in the analyze dialog isAnalyzing is true exactly while a call of
\* analyzeArtifact is awaited; it was already set when the call was made;
\* while it is true the submit button is disabled and at most one call is
\* awaited; and every navigation to /jobs/{job_id} follows a response of a
\* call that carried data and no error, for the job id of that response.
C29_OneSubmissionInFlight ==
    /\ dialog.isAnalyzing <=> Pending # {}
    /\ Cardinality(Pending) <= 1
    /\ dialog.isAnalyzing => SubmitDisabled
    /\ \A k \in 1..Len(dialog.calls) : dialog.calls[k].analyzing
    /\ \A p \in 1..Len(dialog.pushed) :
          LET c == dialog.calls[dialog.pushed[p].call]
          IN  /\ c.phase = "resolved"
              /\ ~c.result[1].thrown
              /\ c.result[1].error = None /\ c.result[1].data # None
              /\ dialog.pushed[p].route = JobRoute(c.result[1].data[1].job_id)

C29_Witness ==
    /\ Len(dialog.calls) = 2 /\ Pending = {}
    /\ dialog.calls[1].result[1].thrown
    /\ dialog.calls[2].result[1].data # None
    /\ Len(dialog.pushed) = 1 /\ dialog.pushed[1].call = 2
    /\ ~dialog.isAnalyzing /\ ~dialog.open

\* C30: whatever the home page and the dialog have called on the editor
\* store, metadata.sourceUrl is set only if the current content was fetched
\* from that URL; setContent changes content and contentType and keeps
\* metadata; clearContent leaves empty content, markdown and no metadata.
C30_SourceUrlMatchesContent ==
    /\ IsFetched(editor) =>
          <<editor.metadata[1].sourceUrl, editor.content>> \in home.fetched
    /\ \A c \in UiContents, t \in ContentType :
          SetContent(editor, c, t) =
              [content |-> c, contentType |-> t, metadata |-> editor.metadata]
    /\ ClearContent(editor) =
          [content |-> <<>>, contentType |-> "markdown", metadata |-> None]

====
